---- MODULE Spec2Model ----
(***************************************************************************)
(* Model of the numeric kernel of math-utils (src/src/index.js): the       *)
(* NumberTheory, Matrix and Statistics objects and the top-level shortcut  *)
(* exports.  The library is stateless; the state machine is a client that  *)
(* picks an operation and its arguments, calls it, observes the outcome    *)
(* (a returned value or a thrown error) and goes back to idle.             *)
(***************************************************************************)
EXTENDS Integers, Sequences, FiniteSets

\* heap holds the arrays that exist as objects during a call that copies or
\* sorts one: heap[1] is the array the caller passed, later entries are the
\* arrays the call allocated.
VARIABLES pc, op, recv, args, result, heap

vars == <<pc, op, recv, args, result, heap>>

\* ------------------------------------------------------------------------
\* Bounds of the explored inputs
\* ------------------------------------------------------------------------
MaxPrimeN == 10000
MaxInt == 12
MaxFactN == 11
MaxRows == 2
MaxCols == 2
MaxEntry == 1
MaxLen == 3
MaxVal == 2
MaxPerfectN == 500
MaxFibN == 20

\* ------------------------------------------------------------------------
\* Outcomes of a call and JavaScript numbers
\* ------------------------------------------------------------------------
Ret(v) == [kind |-> "return", val |-> v]

Throw(e) == [kind |-> "throw", val |-> e]

TypeError == "TypeError"

Abs(x) == IF x < 0 THEN -x ELSE x

\* The remainder operator: the result takes the sign of the dividend
\* (-0 is strictly equal to 0, so both are the integer 0 here).  Every use
\* in the modelled code has a non-zero right operand.
JsMod(a, b) == IF a >= 0 THEN a % Abs(b) ELSE -((-a) % Abs(b))

Finite(n, d) == [cls |-> "finite", num |-> n, den |-> d]

NaN == [cls |-> "NaN", num |-> 0, den |-> 0]

Infinity(s) == [cls |-> "Infinity", num |-> s, den |-> 0]

RECURSIVE Euclid(_, _)
Euclid(x, y) == IF y = 0 THEN x ELSE Euclid(y, x % y)

JsDiv_zeroQuotient(x, y) ==
    IF y = 0 THEN Finite(0, 1)
    ELSE LET g == Euclid(Abs(x), Abs(y))
             s == IF y < 0 THEN -1 ELSE 1
         IN  Finite(s * (x \div g), Abs(y) \div g)

\* The division operator on two integers: 0/0 is NaN, x/0 is +-Infinity,
\* otherwise the exact quotient as a reduced fraction with den > 0 (an
\* integer result has den = 1).
JsDiv(x, y) ==
    IF y = 0 THEN (IF x = 0 THEN NaN ELSE Infinity(IF x < 0 THEN -1 ELSE 1))
    ELSE LET g == Euclid(Abs(x), Abs(y))
             s == IF y < 0 THEN -1 ELSE 1
         IN  Finite(s * (x \div g), Abs(y) \div g)

\* ------------------------------------------------------------------------
\* NumberTheory
\* ------------------------------------------------------------------------
\* The receiver of a call: NumberTheory.f(..) binds this to the NumberTheory
\* object; the destructured shortcut f(..) binds it to the global object
\* (or undefined in strict code), which has no factorial/gcd/lcm property.
Receivers == {"NumberTheory", "none"}

RECURSIVE isPrimeLoop(_, _)
isPrimeLoop(n, i) ==
    IF i * i <= n
    THEN IF JsMod(n, i) = 0 \/ JsMod(n, i + 2) = 0 THEN FALSE
         ELSE isPrimeLoop(n, i + 6)
    ELSE TRUE

isPrime_noPlusTwo(n) ==
    IF n <= 1 THEN FALSE
    ELSE IF n <= 3 THEN TRUE
    ELSE IF JsMod(n, 2) = 0 \/ JsMod(n, 3) = 0 THEN FALSE
    ELSE LET RECURSIVE loop(_)
             loop(i) == IF i * i <= n
                        THEN IF JsMod(n, i) = 0 THEN FALSE ELSE loop(i + 6)
                        ELSE TRUE
         IN  loop(5)

isPrime(n) ==
    IF n <= 1 THEN FALSE
    ELSE IF n <= 3 THEN TRUE
    ELSE IF JsMod(n, 2) = 0 \/ JsMod(n, 3) = 0 THEN FALSE
    ELSE isPrimeLoop(n, 5)

RECURSIVE factorial(_, _)
RECURSIVE factorial_skipOne(_, _)
factorial_skipOne(this, n) ==
    IF n < 0 THEN Throw("Error: Factorial is undefined for negative numbers")
    ELSE IF n = 0 \/ n = 1 THEN Ret(1)
    ELSE IF this # "NumberTheory" THEN Throw(TypeError)
    ELSE LET r == factorial_skipOne(this, n - 2)
         IN  IF r.kind = "throw" THEN r ELSE Ret(n * r.val)

factorial(this, n) ==
    IF n < 0 THEN Throw("Error: Factorial is undefined for negative numbers")
    ELSE IF n = 0 \/ n = 1 THEN Ret(1)
    ELSE IF this # "NumberTheory" THEN Throw(TypeError)
    ELSE LET r == factorial(this, n - 1)
         IN  IF r.kind = "throw" THEN r ELSE Ret(n * r.val)

RECURSIVE gcd(_, _, _)
gcd(this, a, b) ==
    IF b = 0 THEN Ret(a)
    ELSE IF this # "NumberTheory" THEN Throw(TypeError)
    ELSE gcd(this, b, JsMod(a, b))

lcm_noDivide(this, a, b) ==
    IF this # "NumberTheory" THEN Throw(TypeError)
    ELSE LET g == gcd(this, a, b)
         IN  IF g.kind = "throw" THEN g ELSE Ret(JsDiv(Abs(a * b), 1))

lcm(this, a, b) ==
    IF this # "NumberTheory" THEN Throw(TypeError)
    ELSE LET g == gcd(this, a, b)
         IN  IF g.kind = "throw" THEN g ELSE Ret(JsDiv(Abs(a * b), g.val))

\* for (let i = 2; i * i <= n; i++) { if (n % i === 0) { sum += i;
\*   if (i * i !== n) sum += n / i; } }       (the value of sum at loop exit)
RECURSIVE isPerfectLoop(_, _, _)
RECURSIVE isPerfectLoop_doubleCount(_, _, _)
isPerfectLoop_doubleCount(n, i, sum) ==
    IF i * i <= n
    THEN IF JsMod(n, i) = 0
         THEN isPerfectLoop_doubleCount(n, i + 1, sum + i + JsDiv(n, i).num)
         ELSE isPerfectLoop_doubleCount(n, i + 1, sum)
    ELSE sum

isPerfectLoop(n, i, sum) ==
    IF i * i <= n
    THEN IF JsMod(n, i) = 0
         THEN isPerfectLoop(n, i + 1,
                            IF i * i # n THEN sum + i + JsDiv(n, i).num
                                         ELSE sum + i)
         ELSE isPerfectLoop(n, i + 1, sum)
    ELSE sum

isPerfect(n) ==
    IF n <= 1 THEN FALSE
    ELSE isPerfectLoop(n, 2, 1) = n

\* for (let i = 2; i < n; i++) sequence[i] = sequence[i - 1] + sequence[i - 2];
\* (i is 0-based; writing sequence[i] with i = sequence.length appends)
RECURSIVE fibonacciLoop(_, _, _)
RECURSIVE fibonacciLoop_offByOne(_, _, _)
fibonacciLoop_offByOne(sequence, i, n) ==
    IF i <= n
    THEN fibonacciLoop_offByOne(Append(sequence, sequence[i] + sequence[i - 1]), i + 1, n)
    ELSE sequence

fibonacciLoop(sequence, i, n) ==
    IF i < n
    THEN fibonacciLoop(Append(sequence, sequence[i] + sequence[i - 1]), i + 1, n)
    ELSE sequence

fibonacciSequence(n) ==
    IF n <= 0 THEN <<>>
    ELSE IF n = 1 THEN <<0>>
    ELSE IF n = 2 THEN <<0, 1>>
    ELSE fibonacciLoop(<<0, 1>>, 2, n)

\* ------------------------------------------------------------------------
\* Matrix
\* ------------------------------------------------------------------------
\* A matrix is an array of rows; a matrix with zero rows is the empty array
\* whatever its intended column count.  Arrays are modelled as values: every
\* array the code builds is a fresh object (zeros maps each row to a new
\* Array), so no two rows alias.
ErrAdd == "Error: Both matrices must have the same dimensions"

ErrMultiply ==
    "Error: Number of columns in matrix A must equal number of rows in matrix B"

zeros(rows, cols) == [i \in 1..rows |-> [j \in 1..cols |-> 0]]

\* for (let i = 0; i < size; i++) matrix[i][i] = 1;   (i is 0-based)
RECURSIVE identityLoop(_, _, _)
identityLoop(matrix, i, size) ==
    IF i < size
    THEN identityLoop([matrix EXCEPT ![i + 1][i + 1] = 1], i + 1, size)
    ELSE matrix

identity(size) == identityLoop(zeros(size, size), 0, size)

add(a, b) ==
    IF Len(a) # Len(b) THEN Throw(ErrAdd)
    ELSE IF Len(a) = 0 THEN Throw(TypeError)
    ELSE IF Len(a[1]) # Len(b[1]) THEN Throw(ErrAdd)
    ELSE Ret([i \in 1..Len(a) |-> [j \in 1..Len(a[i]) |-> a[i][j] + b[i][j]]])

\* for (let k = 0; k < b.length; k++) result[i][j] += a[i][k] * b[k][j];
RECURSIVE multiplyCell(_, _, _, _, _, _)
multiplyCell(a, b, i, j, k, acc) ==
    IF k < Len(b)
    THEN multiplyCell(a, b, i, j, k + 1, acc + a[i][k + 1] * b[k + 1][j])
    ELSE acc

multiply(a, b) ==
    IF Len(a) = 0 THEN Throw(TypeError)
    ELSE IF Len(a[1]) # Len(b) THEN Throw(ErrMultiply)
    ELSE IF Len(b) = 0 THEN Throw(TypeError)
    ELSE LET result0 == zeros(Len(a), Len(b[1]))
         IN  Ret([i \in 1..Len(a) |->
                    [j \in 1..Len(b[1]) |->
                        multiplyCell(a, b, i, j, 0, result0[i][j])]])

transpose_firstColumn(matrix) ==
    IF Len(matrix) = 0 THEN Throw(TypeError)
    ELSE Ret([colIndex \in 1..Len(matrix[1]) |->
                [r \in 1..Len(matrix) |-> matrix[r][1]]])

transpose(matrix) ==
    IF Len(matrix) = 0 THEN Throw(TypeError)
    ELSE Ret([colIndex \in 1..Len(matrix[1]) |->
                [r \in 1..Len(matrix) |-> matrix[r][colIndex]]])

\* ------------------------------------------------------------------------
\* Statistics
\* ------------------------------------------------------------------------
\* Property keys.  A number used as a property key is converted to its
\* decimal string (a sign and the digits of the magnitude); a key is an
\* array index when it is the canonical string of a non-negative integer.
NumberToString(num) == [neg |-> num < 0, digits |-> Abs(num)]

Number(key) == IF key.neg THEN -key.digits ELSE key.digits

IsArrayIndex(key) == ~key.neg

\* An ordinary object: its keys in creation order and the value of each.
EmptyObject == [ins |-> <<>>, val |-> <<>>]

HasKey(obj, key) == \E i \in DOMAIN obj.ins : obj.ins[i] = key

KeyPos(obj, key) == CHOOSE i \in DOMAIN obj.ins : obj.ins[i] = key

\* obj[key], undefined || 0 being 0
GetOrZero(obj, key) == IF HasKey(obj, key) THEN obj.val[KeyPos(obj, key)] ELSE 0

Put(obj, key, v) ==
    IF HasKey(obj, key)
    THEN [obj EXCEPT !.val[KeyPos(obj, key)] = v]
    ELSE [ins |-> Append(obj.ins, key), val |-> Append(obj.val, v)]

RECURSIVE IndexKeysAscending(_)
IndexKeysAscending(ks) ==
    IF ks = {} THEN <<>>
    ELSE LET m == CHOOSE k \in ks : \A o \in ks : k.digits <= o.digits
         IN  <<m>> \o IndexKeysAscending(ks \ {m})

\* Own property keys: array indices in ascending numeric order, then the
\* other string keys in creation order.
ObjectKeys(obj) ==
    IndexKeysAscending({obj.ins[i] : i \in {j \in DOMAIN obj.ins : IsArrayIndex(obj.ins[j])}})
        \o SelectSeq(obj.ins, LAMBDA k : ~IsArrayIndex(k))

ObjectValues(obj) == [i \in DOMAIN ObjectKeys(obj) |-> GetOrZero(obj, ObjectKeys(obj)[i])]

MathMax(vs) == CHOOSE m \in {vs[i] : i \in DOMAIN vs} : \A i \in DOMAIN vs : vs[i] <= m

\* numbers.forEach(num => { frequency[num] = (frequency[num] || 0) + 1; })
RECURSIVE modeFrequency(_, _, _)
modeFrequency(numbers, i, frequency) ==
    IF i > Len(numbers) THEN frequency
    ELSE LET key == NumberToString(numbers[i])
         IN  modeFrequency(numbers, i + 1,
                           Put(frequency, key, GetOrZero(frequency, key) + 1))

mode(numbers) ==
    IF Len(numbers) = 0 THEN Ret(<<>>)
    ELSE LET frequency == modeFrequency(numbers, 1, EmptyObject)
             maxFreq == MathMax(ObjectValues(frequency))
             kept == SelectSeq(ObjectKeys(frequency),
                               LAMBDA key : GetOrZero(frequency, key) = maxFreq)
         IN  Ret([i \in DOMAIN kept |-> Number(kept[i])])

\* Math.floor of a finite quotient
MathFloor(q) == q.num \div q.den

\* Array.prototype.sort with the comparator (a, b) => a - b: b goes before a
\* exactly when a - b > 0.  The result is the array's elements in ascending
\* order (computed here by insertion).
RECURSIVE sortInsert(_, _)
sortInsert(sorted, x) ==
    IF Len(sorted) = 0 THEN <<x>>
    ELSE IF sorted[Len(sorted)] - x > 0
         THEN Append(sortInsert(SubSeq(sorted, 1, Len(sorted) - 1), x), sorted[Len(sorted)])
         ELSE Append(sorted, x)

RECURSIVE sortFrom(_, _, _)
sortFrom(arr, i, sorted) ==
    IF i > Len(arr) THEN sorted ELSE sortFrom(arr, i + 1, sortInsert(sorted, arr[i]))

\* sort works in place: the array object at ref is overwritten.
sort(h, ref) == [h EXCEPT ![ref] = sortFrom(h[ref], 1, <<>>)]

\* [...numbers]: a new array object with the same elements
spread(h, ref) == Append(h, h[ref])

median_sortInPlace(h, numbers) ==
    IF Len(h[numbers]) = 0 THEN [out |-> Ret(Finite(0, 1)), heap |-> h]
    ELSE LET sorted == numbers
             h2 == sort(h, sorted)
             middle == MathFloor(JsDiv(Len(h2[sorted]), 2))
         IN  [out |-> IF JsMod(Len(h2[sorted]), 2) = 0
                      THEN Ret(JsDiv(h2[sorted][middle] + h2[sorted][middle + 1], 2))
                      ELSE Ret(Finite(h2[sorted][middle + 1], 1)),
              heap |-> h2]

\* numbers is the reference of the caller's array in h; the outcome and the
\* heap after the call.  Indices are 0-based in the code: sorted[middle - 1]
\* and sorted[middle] are elements middle and middle + 1 here.
median(h, numbers) ==
    IF Len(h[numbers]) = 0 THEN [out |-> Ret(Finite(0, 1)), heap |-> h]
    ELSE LET h1 == spread(h, numbers)
             sorted == Len(h1)
             h2 == sort(h1, sorted)
             middle == MathFloor(JsDiv(Len(h2[sorted]), 2))
         IN  [out |-> IF JsMod(Len(h2[sorted]), 2) = 0
                      THEN Ret(JsDiv(h2[sorted][middle] + h2[sorted][middle + 1], 2))
                      ELSE Ret(Finite(h2[sorted][middle + 1], 1)),
              heap |-> h2]

\* ------------------------------------------------------------------------
\* The client
\* ------------------------------------------------------------------------
Entries == 0..MaxEntry

Matrices ==
    UNION {[1..r -> [1..c -> Entries]] : r \in 0..MaxRows, c \in 0..MaxCols}

Values == (-MaxVal)..MaxVal

NumberSeqs == UNION {[1..n -> Values] : n \in 0..MaxLen}

Init ==
    /\ pc = "idle"
    /\ op = "none"
    /\ recv = "none"
    /\ args = <<>>
    /\ result = Ret(0)
    /\ heap = <<>>

CallIsPrime ==
    /\ pc = "idle"
    /\ \E n \in (-MaxInt)..MaxPrimeN :
          /\ args' = <<n>>
          /\ result' = Ret(isPrime(n))
    /\ op' = "isPrime"
    /\ recv' = "NumberTheory"
    /\ pc' = "done"
    /\ UNCHANGED heap

CallFactorial ==
    /\ pc = "idle"
    /\ \E this \in Receivers, n \in (-MaxInt)..MaxFactN :
          /\ recv' = this
          /\ args' = <<n>>
          /\ result' = factorial(this, n)
    /\ op' = "factorial"
    /\ pc' = "done"
    /\ UNCHANGED heap

CallGcd ==
    /\ pc = "idle"
    /\ \E this \in Receivers, a \in (-MaxInt)..MaxInt, b \in (-MaxInt)..MaxInt :
          /\ recv' = this
          /\ args' = <<a, b>>
          /\ result' = gcd(this, a, b)
    /\ op' = "gcd"
    /\ pc' = "done"
    /\ UNCHANGED heap

CallLcm ==
    /\ pc = "idle"
    /\ \E this \in Receivers, a \in (-MaxInt)..MaxInt, b \in (-MaxInt)..MaxInt :
          /\ recv' = this
          /\ args' = <<a, b>>
          /\ result' = lcm(this, a, b)
    /\ op' = "lcm"
    /\ pc' = "done"
    /\ UNCHANGED heap

CallZeros ==
    /\ pc = "idle"
    /\ \E rows \in 0..MaxRows, cols \in 0..MaxCols :
          /\ args' = <<rows, cols>>
          /\ result' = Ret(zeros(rows, cols))
    /\ op' = "zeros"
    /\ recv' = "Matrix"
    /\ pc' = "done"
    /\ UNCHANGED heap

CallIdentity ==
    /\ pc = "idle"
    /\ \E size \in 0..MaxRows :
          /\ args' = <<size>>
          /\ result' = Ret(identity(size))
    /\ op' = "identity"
    /\ recv' = "Matrix"
    /\ pc' = "done"
    /\ UNCHANGED heap

CallAdd ==
    /\ pc = "idle"
    /\ \E a \in Matrices, b \in Matrices :
          /\ args' = <<a, b>>
          /\ result' = add(a, b)
    /\ op' = "add"
    /\ recv' = "Matrix"
    /\ pc' = "done"
    /\ UNCHANGED heap

CallMultiply ==
    /\ pc = "idle"
    /\ \E a \in Matrices, b \in Matrices :
          /\ args' = <<a, b>>
          /\ result' = multiply(a, b)
    /\ op' = "multiply"
    /\ recv' = "Matrix"
    /\ pc' = "done"
    /\ UNCHANGED heap

CallTranspose ==
    /\ pc = "idle"
    /\ \E matrix \in Matrices :
          /\ args' = <<matrix>>
          /\ result' = transpose(matrix)
    /\ op' = "transpose"
    /\ recv' = "Matrix"
    /\ pc' = "done"
    /\ UNCHANGED heap

CallMode ==
    /\ pc = "idle"
    /\ \E numbers \in NumberSeqs :
          /\ args' = <<numbers>>
          /\ result' = mode(numbers)
    /\ op' = "mode"
    /\ recv' = "Statistics"
    /\ pc' = "done"
    /\ UNCHANGED heap

CallIsPerfect ==
    /\ pc = "idle"
    /\ \E n \in (-MaxInt)..MaxPerfectN :
          /\ args' = <<n>>
          /\ result' = Ret(isPerfect(n))
    /\ op' = "isPerfect"
    /\ recv' = "NumberTheory"
    /\ pc' = "done"
    /\ UNCHANGED heap

CallFibonacciSequence ==
    /\ pc = "idle"
    /\ \E n \in (-MaxInt)..MaxFibN :
          /\ args' = <<n>>
          /\ result' = Ret(fibonacciSequence(n))
    /\ op' = "fibonacciSequence"
    /\ recv' = "NumberTheory"
    /\ pc' = "done"
    /\ UNCHANGED heap

CallMedian ==
    /\ pc = "idle"
    /\ \E numbers \in NumberSeqs :
          /\ args' = <<numbers>>
          /\ result' = median(<<numbers>>, 1).out
          /\ heap' = median(<<numbers>>, 1).heap
    /\ op' = "median"
    /\ recv' = "Statistics"
    /\ pc' = "done"

Finish ==
    /\ pc = "done"
    /\ pc' = "idle"
    /\ op' = "none"
    /\ recv' = "none"
    /\ args' = <<>>
    /\ result' = Ret(0)
    /\ heap' = <<>>

\* Calls of the functions of one argument list of scalars, one matrix or one
\* sequence.
Next ==
    \/ CallIsPrime
    \/ CallFactorial
    \/ CallGcd
    \/ CallLcm
    \/ CallIsPerfect
    \/ CallFibonacciSequence
    \/ CallZeros
    \/ CallIdentity
    \/ CallTranspose
    \/ CallMode
    \/ CallMedian
    \/ Finish

Spec == Init /\ [][Next]_vars

\* Calls of the functions of two matrices.
NextBinary ==
    \/ CallAdd
    \/ CallMultiply
    \/ Finish

SpecBinary == Init /\ [][NextBinary]_vars

\* ------------------------------------------------------------------------
\* Properties
\* ------------------------------------------------------------------------
Called(f) == pc = "done" /\ op = f

\* Reference primality: n >= 2 and no d with 2 <= d and d*d <= n divides n.
NaivePrime(n) == n >= 2 /\ \A d \in 2..n : (d * d <= n) => (n % d # 0)

\* C1: for every integer n in [0, 10000], NumberTheory.isPrime(n) returns the
\* same boolean as the naive trial-division reference.
C1_IsPrimeMatchesNaive ==
    (Called("isPrime") /\ args[1] >= 0) => result = Ret(NaivePrime(args[1]))

\* a composite whose only prime factor is of the form 6k+1 (97 = 95 + 2)
C1_Witness ==
    Called("isPrime") /\ args[1] = 9409 /\ result = Ret(FALSE)

\* C2: for all integers a and b, negatives included, NumberTheory.gcd(a, b)
\* terminates and the value it returns is non-negative.
C2_GcdNonNegative ==
    (Called("gcd") /\ recv = "NumberTheory")
        => (result.kind = "return" /\ result.val >= 0)

\* C3: for all integers a > 0 and b > 0, NumberTheory.gcd(a, b) *
\* NumberTheory.lcm(a, b) equals a * b.
C3_GcdTimesLcm ==
    (Called("lcm") /\ recv = "NumberTheory" /\ args[1] > 0 /\ args[2] > 0)
        => /\ result.kind = "return"
           /\ result.val.cls = "finite"
           /\ result.val.den = 1
           /\ gcd("NumberTheory", args[1], args[2]).val * result.val.num
                 = args[1] * args[2]

C3_Witness ==
    /\ Called("lcm") /\ recv = "NumberTheory" /\ args = <<4, 6>>
    /\ result = Ret(Finite(12, 1))

ViaObject(f, xs) ==
    IF f = "factorial" THEN factorial("NumberTheory", xs[1])
    ELSE IF f = "gcd" THEN gcd("NumberTheory", xs[1], xs[2])
    ELSE lcm("NumberTheory", xs[1], xs[2])

\* C4: the shortcut functions factorial, gcd and lcm, called as plain
\* functions without a receiver, return the same results as the methods of
\* NumberTheory for every input, the recursive branch included.
C4_ShortcutsAgree ==
    (pc = "done" /\ op \in {"factorial", "gcd", "lcm"} /\ recv = "none")
        => result = ViaObject(op, args)

\* C8: NumberTheory.lcm(0, 0) fails with an error or returns an undefined
\* sentinel (NaN); it never returns an ordinary number.
C8_LcmZeroZero ==
    (Called("lcm") /\ recv = "NumberTheory" /\ args = <<0, 0>>)
        => \/ result.kind = "throw"
           \/ result.kind = "return" /\ result.val.cls = "NaN"

C8_Witness ==
    Called("lcm") /\ recv = "NumberTheory" /\ args = <<0, 0>> /\ result = Ret(NaN)

RECURSIVE ProductFrom(_, _, _)
ProductFrom(i, n, acc) == IF i > n THEN acc ELSE ProductFrom(i + 1, n, acc * i)

\* C10: NumberTheory.factorial(n) fails with an error for every n < 0,
\* returns 1 for n in {0, 1}, and returns the product 1*2*...*n for n >= 2.
C10_Factorial ==
    (Called("factorial") /\ recv = "NumberTheory")
        => /\ args[1] < 0 => result.kind = "throw"
           /\ args[1] \in {0, 1} => result = Ret(1)
           /\ args[1] >= 2 => result = Ret(ProductFrom(1, args[1], 1))

C10_Witness ==
    Called("factorial") /\ recv = "NumberTheory" /\ args = <<5>> /\ result = Ret(120)

\* C5: for every rectangular matrix M, including matrices with zero rows or
\* zero columns, Matrix.transpose(Matrix.transpose(M)) returns M.
C5_TransposeTwice ==
    Called("transpose")
        => /\ result.kind = "return"
           /\ transpose(result.val) = Ret(args[1])

\* C5 (amended): for every rectangular matrix M with at least one row and at
\* least one column, transpose(transpose(M)) returns M; transpose of a matrix
\* with zero rows throws a TypeError, and transpose of a matrix with rows but
\* zero columns returns the empty array, whose transpose throws.
C5_TransposeTwiceNonEmpty ==
    Called("transpose")
        => /\ (Len(args[1]) >= 1 /\ Len(args[1][1]) >= 1)
                 => /\ result.kind = "return"
                    /\ transpose(result.val) = Ret(args[1])
           /\ Len(args[1]) = 0 => result = Throw(TypeError)
           /\ (Len(args[1]) >= 1 /\ Len(args[1][1]) = 0)
                 => /\ result = Ret(<<>>)
                    /\ transpose(result.val) = Throw(TypeError)

C5_Witness ==
    /\ Called("transpose")
    /\ args[1] = <<(<<0, 1>>)>>
    /\ result = Ret(<<(<<0>>), (<<1>>)>>)
    /\ transpose(result.val) = Ret(args[1])

Rows(m) == Len(m)

Cols(m) == IF Len(m) = 0 THEN 0 ELSE Len(m[1])

\* C6: Matrix.add(a, b) fails with a dimension-mismatch error whenever a and
\* b differ in row count or column count, and Matrix.multiply(a, b) fails
\* with a dimension-mismatch error whenever a's column count differs from b's
\* row count, zero dimensions included; no result matrix is returned.
C6_DimensionMismatch ==
    /\ (Called("add") /\ (Rows(args[1]) # Rows(args[2]) \/ Cols(args[1]) # Cols(args[2])))
          => result = Throw(ErrAdd)
    /\ (Called("multiply") /\ Cols(args[1]) # Rows(args[2]))
          => result = Throw(ErrMultiply)

\* C7: for every n >= 0 and every matrix M with n rows,
\* Matrix.multiply(Matrix.identity(n), M) returns M.
C7_IdentityMultiply ==
    (Called("multiply") /\ args[1] = identity(Len(args[2])))
        => result = Ret(args[2])

Range(s) == {s[i] : i \in DOMAIN s}

Count(xs, v) == Cardinality({i \in DOMAIN xs : xs[i] = v})

ModeSet(xs) == {v \in Range(xs) : \A w \in Range(xs) : Count(xs, w) <= Count(xs, v)}

FirstIndex(xs, v) == CHOOSE i \in DOMAIN xs : xs[i] = v /\ \A j \in 1..(i - 1) : xs[j] # v

Lists(s, S) == Len(s) = Cardinality(S) /\ Range(s) = S

InFirstEncounterOrder(s, xs) ==
    \A i, j \in DOMAIN s : i < j => FirstIndex(xs, s[i]) < FirstIndex(xs, s[j])

InAscendingOrder(s) == \A i, j \in DOMAIN s : i < j => s[i] < s[j]

\* C9: for every non-empty numeric sequence xs, negatives mixed with
\* non-negatives included, Statistics.mode(xs) returns exactly the values of
\* maximum occurrence count, each once, in order of first encounter or in
\* ascending numeric order; for empty xs it returns an empty sequence.
C9_ModeOrder ==
    Called("mode")
        => /\ result.kind = "return"
           /\ Lists(result.val, ModeSet(args[1]))
           /\ \/ InFirstEncounterOrder(result.val, args[1])
              \/ InAscendingOrder(result.val)

\* The proper divisors of n: every d with 1 <= d < n that divides n.
ProperDivisors(n) == {d \in 1..(n - 1) : n % d = 0}

RECURSIVE SumOf(_)
SumOf(S) == IF S = {} THEN 0 ELSE LET x == CHOOSE y \in S : TRUE IN x + SumOf(S \ {x})

\* C11: for every integer n > 1, NumberTheory.isPerfect(n) returns true
\* exactly when the sum of the proper divisors of n, each counted once,
\* equals n, and false for n <= 1; the loop up to sqrt(n) accumulates exactly
\* that sum (no divisor is counted twice when i*i = n).
C11_IsPerfect ==
    Called("isPerfect")
        => /\ args[1] <= 1 => result = Ret(FALSE)
           /\ args[1] > 1
                 => /\ result = Ret(SumOf(ProperDivisors(args[1])) = args[1])
                    /\ isPerfectLoop(args[1], 2, 1) = SumOf(ProperDivisors(args[1]))

\* a perfect number, and a call on a perfect square (divisor 6 counted once)
C11_Witness ==
    /\ Called("isPerfect")
    /\ \/ args[1] = 496 /\ result = Ret(TRUE)
       \/ args[1] = 36 /\ result = Ret(FALSE) /\ isPerfectLoop(36, 2, 1) = 55

Max(x, y) == IF x >= y THEN x ELSE y

\* C12: for every integer n, NumberTheory.fibonacciSequence(n) returns a
\* sequence of length max(n, 0) whose term 0 is 0, term 1 is 1 and every term
\* i >= 2 is the sum of terms i-1 and i-2; for n <= 0 the result is empty.
\* (Term i of the code's 0-based array is element i + 1 here.)
C12_Fibonacci ==
    Called("fibonacciSequence")
        => /\ result.kind = "return"
           /\ Len(result.val) = Max(args[1], 0)
           /\ Len(result.val) >= 1 => result.val[1] = 0
           /\ Len(result.val) >= 2 => result.val[2] = 1
           /\ \A i \in 3..Len(result.val) :
                 result.val[i] = result.val[i - 1] + result.val[i - 2]

C12_Witness ==
    /\ Called("fibonacciSequence")
    /\ args = <<10>>
    /\ result = Ret(<<0, 1, 1, 2, 3, 5, 8, 13, 21, 34>>)

\* The k-th smallest element of xs (1 <= k <= Len(xs)), by rank.
KthSmallest(xs, k) ==
    CHOOSE v \in Range(xs) :
        /\ Cardinality({i \in DOMAIN xs : xs[i] < v}) < k
        /\ Cardinality({i \in DOMAIN xs : xs[i] <= v}) >= k

\* C13: Statistics.median(xs) returns 0 for empty xs, the middle element of
\* the ascending sort of xs when the length is odd, and the average of the
\* two middle elements when it is even; the sort is done on a copy, so xs has
\* the same elements in the same order after the call.
C13_Median ==
    Called("median")
        => LET xs == args[1]
               n == Len(xs)
           IN  /\ n = 0 => result = Ret(Finite(0, 1))
               /\ (n > 0 /\ n % 2 = 1)
                     => result = Ret(Finite(KthSmallest(xs, (n + 1) \div 2), 1))
               /\ (n > 0 /\ n % 2 = 0)
                     => /\ result.kind = "return"
                        /\ result.val.cls = "finite"
                        /\ 2 * result.val.num
                              = result.val.den * (KthSmallest(xs, n \div 2)
                                                  + KthSmallest(xs, n \div 2 + 1))
               /\ heap[1] = xs

\* an unsorted input of odd length: the copy is sorted, the input is not
C13_Witness ==
    /\ Called("median")
    /\ args = <<(<<2, -2, 1>>)>>
    /\ result = Ret(Finite(1, 1))
    /\ heap = <<(<<2, -2, 1>>), (<<-2, 1, 2>>)>>

====
